---------------------------- MODULE Spec2Model ----------------------------
(***************************************************************************)
(* A model of src/generate_ics.py: the transformation of a list of         *)
(* football fixtures and a grounds lookup into an ICS calendar document.   *)
(*                                                                         *)
(* Text.  A Python str is modelled as a sequence of tokens.  A token is a  *)
(* TLA+ string: either one character (every character of input data is a  *)
(* token of its own) or a chunk of literal text of the program that holds  *)
(* none of the characters escape_ics_text looks for (backslash, semicolon, *)
(* comma, line feed).  The two emoji of the source, which the TLA+ lexer   *)
(* does not read, are written U+1F455 and U+26BD.                          *)
(*                                                                         *)
(* A fixture is a record; `keys` holds the optional keys the JSON object    *)
(* carries (kick_off, away_ground, last_updated, version), and the field   *)
(* of an absent key is never read.  A function that may raise returns      *)
(* Ok(value) or Err(message).                                              *)
(***************************************************************************)
EXTENDS Integers, Sequences, FiniteSets, TLC

VARIABLES
  data,          \* generate_ics_content: the fixture list (input)
  grounds_data,  \* generate_ics_content: the grounds lookup (input)
  season,        \* generate_ics_content: the season label (input)
  now,           \* the clock datetime.datetime.utcnow() reads
  pc,            \* position in generate_ics_content
  idx,           \* number of fixtures the for loop has taken
  lines,         \* the list `lines`
  result,        \* what the running invocation returned or raised
  first,         \* what the previous invocation on the same inputs gave
  text,          \* escape_ics_text: its argument
  escaped,       \* escape_ics_text: its return value
  restored,      \* the escaped text mapped back by the inverse substitutions
  epc            \* position in the escape / reverse-map run

vars == <<data, grounds_data, season, now, pc, idx, lines, result, first,
          text, escaped, restored, epc>>

genVars == <<data, grounds_data, season, now, pc, idx, lines, result, first>>
escVars == <<text, escaped, restored, epc>>

-----------------------------------------------------------------------------
(* Characters and str methods *)

BS == "\\"
LF == "\n"
SEMI == ";"
COMMA == ","

IsPrefix(p, s) == Len(p) <= Len(s) /\ SubSeq(s, 1, Len(p)) = p

\* str.replace(old, new): every non-overlapping occurrence, left to right
RECURSIVE Replace(_, _, _)
Replace(s, old, new) ==
  IF Len(s) < Len(old) \/ s = <<>> THEN s
  ELSE IF IsPrefix(old, s)
       THEN new \o Replace(SubSeq(s, Len(old) + 1, Len(s)), old, new)
       ELSE <<Head(s)>> \o Replace(Tail(s), old, new)

\* "\n".join(lines)
RECURSIVE Join(_)
Join(ls) ==
  IF ls = <<>> THEN <<>>
  ELSE IF Len(ls) = 1 THEN ls[1]
  ELSE ls[1] \o <<LF>> \o Join(Tail(ls))

\* escape_ics_text without the backslash step first (a plausible slip: the
\* backslash doubled last, so the escapes just written are doubled too)
escape_backslash_last(t) ==
  Replace(Replace(Replace(Replace(t, <<SEMI>>, <<BS, SEMI>>),
                          <<COMMA>>, <<BS, COMMA>>),
                  <<LF>>, <<BS, "n">>),
          <<BS>>, <<BS, BS>>)

escape_ics_text(t) ==
  LET t1 == Replace(t, <<BS>>, <<BS, BS>>)
      t2 == Replace(t1, <<SEMI>>, <<BS, SEMI>>)
      t3 == Replace(t2, <<COMMA>>, <<BS, COMMA>>)
      t4 == Replace(t3, <<LF>>, <<BS, "n">>)
  IN t4

\* The reverse mapping the specification describes: the four inverse
\* substitutions, in the reverse order
unescape_ics_text(t) ==
  LET u1 == Replace(t, <<BS, "n">>, <<LF>>)
      u2 == Replace(u1, <<BS, COMMA>>, <<COMMA>>)
      u3 == Replace(u2, <<BS, SEMI>>, <<SEMI>>)
      u4 == Replace(u3, <<BS, BS>>, <<BS>>)
  IN u4

-----------------------------------------------------------------------------
(* Digits, letters, number formatting *)

DigitChars == <<"0", "1", "2", "3", "4", "5", "6", "7", "8", "9">>
Uppers == <<"A", "B", "C", "D", "E", "F", "G", "H", "I", "J", "K", "L", "M",
            "N", "O", "P", "Q", "R", "S", "T", "U", "V", "W", "X", "Y", "Z">>
Lowers == <<"a", "b", "c", "d", "e", "f", "g", "h", "i", "j", "k", "l", "m",
            "n", "o", "p", "q", "r", "s", "t", "u", "v", "w", "x", "y", "z">>

Range(f) == {f[k] : k \in DOMAIN f}
IsDigit(c) == c \in Range(DigitChars)
DigitVal(c) == (CHOOSE k \in 1..10 : DigitChars[k] = c) - 1
AllDigits(s) == \A k \in 1..Len(s) : IsDigit(s[k])

RECURSIVE NumVal(_)
NumVal(s) == IF s = <<>> THEN 0
             ELSE 10 * NumVal(SubSeq(s, 1, Len(s) - 1)) + DigitVal(s[Len(s)])

\* str(n) of a non-negative int
RECURSIVE IntStr(_)
IntStr(n) == IF n < 10 THEN <<DigitChars[n + 1]>>
             ELSE IntStr(n \div 10) \o <<DigitChars[(n % 10) + 1]>>

\* a strftime field: n zero-padded to w digits
RECURSIVE Pad(_, _)
Pad(n, w) == IF w = 0 THEN <<>>
             ELSE Pad(n \div 10, w - 1) \o <<DigitChars[(n % 10) + 1]>>

\* str.lower() of one character
LowerChar(c) == IF c \in Range(Uppers)
                THEN Lowers[CHOOSE k \in 1..26 : Uppers[k] = c]
                ELSE c
Lower(s) == [k \in 1..Len(s) |-> LowerChar(s[k])]

\* the class [a-zA-Z0-9]
IsAlnum(c) == c \in Range(Uppers) \cup Range(Lowers) \cup Range(DigitChars)
\* re.sub(r'[^a-zA-Z0-9]', '', s)
StripNonAlnum(s) == SelectSeq(s, IsAlnum)

Ok(v) == [ok |-> TRUE, val |-> v, err |-> <<>>]
Err(m) == [ok |-> FALSE, val |-> <<>>, err |-> m]

-----------------------------------------------------------------------------
(* datetime: the proleptic Gregorian calendar as the Python library keeps it *)

IsLeap(y) == y % 4 = 0 /\ (y % 100 # 0 \/ y % 400 = 0)
DAYS_IN_MONTH == <<31, 28, 31, 30, 31, 30, 31, 31, 30, 31, 30, 31>>
DaysInMonth(y, m) == IF m = 2 /\ IsLeap(y) THEN 29 ELSE DAYS_IN_MONTH[m]

RECURSIVE DaysBeforeMonthPlain(_)
DaysBeforeMonthPlain(m) ==
  IF m <= 1 THEN 0 ELSE DaysBeforeMonthPlain(m - 1) + DAYS_IN_MONTH[m - 1]
DaysBeforeMonth(y, m) ==
  DaysBeforeMonthPlain(m) + (IF m > 2 /\ IsLeap(y) THEN 1 ELSE 0)
DaysBeforeYear(y) ==
  LET p == y - 1 IN p * 365 + (p \div 4) - (p \div 100) + (p \div 400)

\* date.toordinal(): 1 is 0001-01-01
Ymd2Ord(y, m, d) == DaysBeforeYear(y) + DaysBeforeMonth(y, m) + d

\* date.fromordinal()
Ord2Ymd(ord) ==
  LET n0 == ord - 1
      n400 == n0 \div 146097
      r400 == n0 % 146097
      n100 == r400 \div 36524
      r100 == r400 % 36524
      n4 == r100 \div 1461
      r4 == r100 % 1461
      n1 == r4 \div 365
      n == r4 % 365
      year == n400 * 400 + 1 + n100 * 100 + n4 * 4 + n1
  IN IF n1 = 4 \/ n100 = 4 THEN [y |-> year - 1, m |-> 12, d |-> 31]
     ELSE LET leap == n1 = 3 /\ (n4 # 24 \/ n100 = 3)
              m0 == (n + 50) \div 32
              p0 == DaysBeforeMonthPlain(m0) + (IF m0 > 2 /\ leap THEN 1 ELSE 0)
              month == IF p0 > n THEN m0 - 1 ELSE m0
              prec == IF p0 > n
                      THEN p0 - (DAYS_IN_MONTH[m0 - 1]
                                 + (IF m0 - 1 = 2 /\ leap THEN 1 ELSE 0))
                      ELSE p0
          IN [y |-> year, m |-> month, d |-> n - prec + 1]

\* date.isoweekday(): Monday = 1 ... Sunday = 7
isoweekday(y, m, d) == ((Ymd2Ord(y, m, d) + 6) % 7) + 1

\* date.weekday(): Monday = 0 ... Sunday = 6
weekday(y, m, d) == (Ymd2Ord(y, m, d) + 6) % 7

Quote == "'"

\* datetime.datetime.strptime(s, "%Y-%m-%d") for a ten-character s
strptime_date(s) ==
  LET shape == Len(s) = 10 /\ AllDigits(SubSeq(s, 1, 4)) /\ s[5] = "-"
               /\ AllDigits(SubSeq(s, 6, 7)) /\ s[8] = "-"
               /\ AllDigits(SubSeq(s, 9, 10))
      y == NumVal(SubSeq(s, 1, 4))
      m == NumVal(SubSeq(s, 6, 7))
      d == NumVal(SubSeq(s, 9, 10))
      nomatch == Err(<<"time data ", Quote>> \o s
                     \o <<Quote, " does not match format ", Quote, "%Y-%m-%d", Quote>>)
  IN IF ~shape \/ m < 1 \/ m > 12 \/ d = 0 THEN nomatch
     ELSE IF d > 31 THEN Err(<<"unconverted data remains: ", s[10]>>)
     ELSE IF y < 1 THEN Err(<<"year 0 is out of range">>)
     ELSE IF d > DaysInMonth(y, m) THEN Err(<<"day is out of range for month">>)
     ELSE Ok([y |-> y, m |-> m, d |-> d])

\* datetime.datetime.strptime(s, "%H:%M") for a five-character s
strptime_time(s) ==
  LET shape == Len(s) = 5 /\ AllDigits(SubSeq(s, 1, 2)) /\ s[3] = ":"
               /\ AllDigits(SubSeq(s, 4, 5))
      h == NumVal(SubSeq(s, 1, 2))
      mi == NumVal(SubSeq(s, 4, 5))
  IN IF ~shape \/ h > 23
     THEN Err(<<"time data ", Quote>> \o s
              \o <<Quote, " does not match format ", Quote, "%H:%M", Quote>>)
     ELSE IF mi > 59 THEN Err(<<"unconverted data remains: ", s[5]>>)
     ELSE Ok([h |-> h, mi |-> mi])

\* datetime.strftime("%Y%m%dT%H%M%SZ")
strftime_ics(y, m, d, h, mi, sec) ==
  Pad(y, 4) \o Pad(m, 2) \o Pad(d, 2) \o <<"T">>
  \o Pad(h, 2) \o Pad(mi, 2) \o Pad(sec, 2) \o <<"Z">>

-----------------------------------------------------------------------------
(* The field derivers *)

Hallam == <<"H", "a", "l", "l", "a", "m">>
WeekendKickOff == <<"1", "5", ":", "0", "0">>
MidweekKickOff == <<"1", "9", ":", "4", "5">>
MatchHours == 2

\* get_default_kick_off with isoweekday() in place of weekday(): Friday
\* counts as weekend
get_default_kick_off_iso(date_str) ==
  LET p == strptime_date(date_str)
  IN IF ~p.ok THEN p
     ELSE Ok(IF isoweekday(p.val.y, p.val.m, p.val.d) >= 5
             THEN WeekendKickOff ELSE MidweekKickOff)

get_default_kick_off(date_str) ==
  LET p == strptime_date(date_str)
  IN IF ~p.ok THEN p
     ELSE Ok(IF weekday(p.val.y, p.val.m, p.val.d) >= 5
             THEN WeekendKickOff ELSE MidweekKickOff)

get_kick_off_time(fixture) ==
  IF "kick_off" \in fixture.keys /\ fixture.kick_off # <<>>
  THEN Ok(fixture.kick_off)
  ELSE get_default_kick_off(fixture.date)

\* generate_uid with the date appended (the unused date_clean put to use)
generate_uid_dated(fixture, s) ==
  LET kick == get_kick_off_time(fixture)
  IN IF ~kick.ok THEN kick
     ELSE Ok(<<"hallam-fc-">> \o s \o <<"-">>
             \o StripNonAlnum(Lower(fixture.opponent)) \o <<"-">>
             \o StripNonAlnum(Lower(fixture.competition)) \o <<"-">>
             \o <<IF fixture.is_home THEN "home" ELSE "away">>
             \o <<"-">> \o Replace(fixture.date, <<"-">>, <<>>))

generate_uid(fixture, s) ==
  LET opponent_clean == StripNonAlnum(Lower(fixture.opponent))
      competition_clean == StripNonAlnum(Lower(fixture.competition))
      home_away == IF fixture.is_home THEN "home" ELSE "away"
      kick_off_time == get_kick_off_time(fixture)
  IN IF ~kick_off_time.ok THEN kick_off_time
     ELSE Ok(<<"hallam-fc-">> \o s \o <<"-">> \o opponent_clean \o <<"-">>
             \o competition_clean \o <<"-">> \o <<home_away>>)

format_datetime(date_str, time_str) ==
  LET date_obj == strptime_date(date_str)
      time_obj == strptime_time(time_str)
  IN IF ~date_obj.ok THEN date_obj
     ELSE IF ~time_obj.ok THEN time_obj
     ELSE Ok(strftime_ics(date_obj.val.y, date_obj.val.m, date_obj.val.d,
                          time_obj.val.h, time_obj.val.mi, 0))

\* datetime + timedelta(hours = hours)
plus_hours(y, m, d, h, mi, hours) ==
  LET secs == h * 3600 + mi * 60 + hours * 3600
      date == Ord2Ymd(Ymd2Ord(y, m, d) + (secs \div 86400))
      rem == secs % 86400
  IN [y |-> date.y, m |-> date.m, d |-> date.d,
      h |-> rem \div 3600, mi |-> (rem % 3600) \div 60, sec |-> rem % 60]

\* end_time with the hours added to the clock field only (no carry into the date)
end_time_no_carry(date_str, time_str) ==
  LET date_obj == strptime_date(date_str)
      time_obj == strptime_time(time_str)
  IN IF ~date_obj.ok THEN date_obj
     ELSE IF ~time_obj.ok THEN time_obj
     ELSE Ok(strftime_ics(date_obj.val.y, date_obj.val.m, date_obj.val.d,
                          (time_obj.val.h + MatchHours) % 24, time_obj.val.mi, 0))

\* lines 139-141: strptime(date + " " + kick_off, "%Y-%m-%d %H:%M") + 2 hours
end_time(date_str, time_str) ==
  LET date_obj == strptime_date(date_str)
      time_obj == strptime_time(time_str)
  IN IF ~date_obj.ok THEN date_obj
     ELSE IF ~time_obj.ok THEN time_obj
     ELSE LET end_dt == plus_hours(date_obj.val.y, date_obj.val.m, date_obj.val.d,
                                   time_obj.val.h, time_obj.val.mi, MatchHours)
          IN Ok(strftime_ics(end_dt.y, end_dt.m, end_dt.d,
                             end_dt.h, end_dt.mi, end_dt.sec))

summary_text(fixture) ==
  IF fixture.is_home
  THEN <<"U+1F455 Hallam FC v ">> \o fixture.opponent
  ELSE fixture.opponent \o <<" v U+1F455 Hallam FC">>

description_text(fixture) ==
  <<"U+26BD Watch Hallam FC take on ">> \o fixture.opponent
  \o <<" in the ">> \o fixture.competition
  \o <<".", LF, LF, "Check the website for tickets", COMMA, " news and updates:",
       LF, "https://hallamfc.co.uk", LF, LF, "Join the discussion on X:",
       LF, "https://x.com/HallamFC1860", LF, LF,
       "Check for highlights on YouTube:", LF,
       "https://www.youtube.com/@hallamfc1860">>

\* f"{ground['name']}, {ground['address']}"
venue_text(ground) == ground.name \o <<COMMA, " ">> \o ground.address

opponent_missing(opponent) ==
  <<"Opponent ", Quote>> \o opponent
  \o <<Quote, " not found in grounds.json. Please add this club to the grounds data.">>

\* location_text that falls back to the home ground for an unknown opponent
location_text_fallback(fixture, g) ==
  IF fixture.is_home \/ fixture.opponent \notin DOMAIN g
  THEN Ok(venue_text(g[Hallam]))
  ELSE Ok(venue_text(g[fixture.opponent]))

\* lines 153-162
location_text(fixture, g) ==
  IF fixture.is_home THEN Ok(venue_text(g[Hallam]))
  ELSE IF fixture.opponent \in DOMAIN g
       THEN Ok(venue_text(g[fixture.opponent]))
       ELSE Err(opponent_missing(fixture.opponent))

\* datetime.datetime.utcnow().isoformat() + 'Z': the clock counts microseconds
utcnow_text(clock) == <<"2026-01-01T00:00:00.">> \o Pad(clock, 6) \o <<"Z">>

\* last_updated that never reads the fixture's own stamp
last_updated_now(fixture, clock) == utcnow_text(clock)

last_updated_text(fixture, clock) ==
  IF "last_updated" \in fixture.keys THEN fixture.last_updated
  ELSE utcnow_text(clock)

version_text(fixture) ==
  IF "version" \in fixture.keys THEN IntStr(fixture.version) ELSE IntStr(0)

\* one pass of the loop body, lines 129-183: the event's lines, or the first error
event_lines(fixture, s, g, clock) ==
  LET uid == generate_uid(fixture, s)
      kick_off_time == get_kick_off_time(fixture)
      start_time == format_datetime(fixture.date, kick_off_time.val)
      endt == end_time(fixture.date, kick_off_time.val)
      location == location_text(fixture, g)
  IN IF ~uid.ok THEN uid
     ELSE IF ~kick_off_time.ok THEN kick_off_time
     ELSE IF ~start_time.ok THEN start_time
     ELSE IF ~endt.ok THEN endt
     ELSE IF ~location.ok THEN location
     ELSE Ok(<< <<"BEGIN:VEVENT">>,
                <<"UID:">> \o uid.val,
                <<"DTSTAMP:">> \o last_updated_text(fixture, clock),
                <<"DTSTART:">> \o start_time.val,
                <<"DTEND:">> \o endt.val,
                <<"SUMMARY:">> \o summary_text(fixture),
                <<"DESCRIPTION:">> \o escape_ics_text(description_text(fixture)),
                <<"LOCATION:">> \o location.val,
                <<"STATUS:CONFIRMED">>,
                <<"SEQUENCE:">> \o version_text(fixture),
                <<"TRANSP:TRANSPARENT">>,
                <<"END:VEVENT">>,
                <<>> >>)

\* lines 110-120
header_lines(s) ==
  << <<"BEGIN:VCALENDAR">>,
     <<"VERSION:2.0">>,
     <<"PRODID:-//Hallam FC//Fixtures Calendar//">> \o s \o <<"//EN">>,
     <<"CALSCALE:GREGORIAN">>,
     <<"METHOD:PUBLISH">>,
     <<"X-WR-CALNAME:Hallam FC Fixtures ">> \o s,
     <<"X-WR-CALDESC:All Hallam FC football fixtures for the ">> \o s \o <<" season">>,
     <<"X-WR-TIMEZONE:Europe/London">>,
     <<>> >>

hallam_missing ==
  <<"Hallam not found in grounds.json. Please add Hallam to the grounds data.">>

NoResult == [kind |-> "none", text |-> <<>>]
Raised(msg) == [kind |-> "error", text |-> msg]
Returned(doc) == [kind |-> "document", text |-> doc]

-----------------------------------------------------------------------------
(* generate_ics_content, one action per step *)

\* Begin with the home-club check put off until there is a fixture to place
BeginLazy ==
  /\ pc = "start"
  /\ lines' = header_lines(season)
  /\ IF Hallam \notin DOMAIN grounds_data /\ data # <<>>
     THEN pc' = "failed" /\ result' = Raised(hallam_missing)
     ELSE pc' = "loop" /\ result' = result
  /\ UNCHANGED <<data, grounds_data, season, now, idx, first>>
  /\ UNCHANGED escVars

\* lines 110-126: the header, then the home club's ground
Begin ==
  /\ pc = "start"
  /\ lines' = header_lines(season)
  /\ IF Hallam \notin DOMAIN grounds_data
     THEN pc' = "failed" /\ result' = Raised(hallam_missing)
     ELSE pc' = "loop" /\ result' = result
  /\ UNCHANGED <<data, grounds_data, season, now, idx, first>>
  /\ UNCHANGED escVars

\* ProcessFixture putting the new event first
ProcessFixtureFront ==
  /\ pc = "loop"
  /\ idx < Len(data)
  /\ idx' = idx + 1
  /\ LET e == event_lines(data[idx + 1], season, grounds_data, now)
     IN IF e.ok
        THEN /\ lines' = SubSeq(lines, 1, 9) \o e.val \o SubSeq(lines, 10, Len(lines))
             /\ UNCHANGED <<pc, result>>
        ELSE /\ pc' = "failed"
             /\ result' = Raised(e.err)
             /\ UNCHANGED lines
  /\ UNCHANGED <<data, grounds_data, season, now, first>>
  /\ UNCHANGED escVars

\* lines 128-185: one pass of the for loop
ProcessFixture ==
  /\ pc = "loop"
  /\ idx < Len(data)
  /\ idx' = idx + 1
  /\ LET e == event_lines(data[idx + 1], season, grounds_data, now)
     IN IF e.ok
        THEN /\ lines' = lines \o e.val
             /\ UNCHANGED <<pc, result>>
        ELSE /\ pc' = "failed"
             /\ result' = Raised(e.err)
             /\ UNCHANGED lines
  /\ UNCHANGED <<data, grounds_data, season, now, first>>
  /\ UNCHANGED escVars

\* lines 187-188
Finish ==
  /\ pc = "loop"
  /\ idx = Len(data)
  /\ lines' = Append(lines, <<"END:VCALENDAR">>)
  /\ result' = Returned(Join(lines'))
  /\ pc' = "done"
  /\ UNCHANGED <<data, grounds_data, season, now, idx, first>>
  /\ UNCHANGED escVars

\* the caller invokes generate_ics_content again on the same inputs
Rerun ==
  /\ pc \in {"done", "failed"}
  /\ first.kind = "none"
  /\ first' = result
  /\ result' = NoResult
  /\ pc' = "start"
  /\ idx' = 0
  /\ lines' = <<>>
  /\ UNCHANGED <<data, grounds_data, season, now>>
  /\ UNCHANGED escVars

MaxClock == 2

\* time passes
Tick ==
  /\ pc # "idle"
  /\ now < MaxClock
  /\ now' = now + 1
  /\ UNCHANGED <<data, grounds_data, season, pc, idx, lines, result, first>>
  /\ UNCHANGED escVars

-----------------------------------------------------------------------------
(* Inputs *)

\* every sequence over S of length at most n
RECURSIVE SeqsUpTo(_, _)
SeqsUpTo(S, n) ==
  IF n = 0 THEN {<<>>}
  ELSE LET shorter == SeqsUpTo(S, n - 1)
       IN shorter \cup {Append(s, c) : s \in {t \in shorter : Len(t) = n - 1}, c \in S}

MaxFixtures == 2
YearSpan == 2

OppTown == <<"E", "x", " ", "T">>
OppDash == <<"e", "x", "-", "t">>
OppComma == <<"R", ",", "C">>
CompCup == <<"F", ".", "A", " ", "C", "u", "p">>
CompLeague == <<"N", "C", "E", "L", ";", "1">>
Season2425 == <<"2", "0", "2", "4", "-", "2", "0", "2", "5">>
Season2526 == <<"2", "0", "2", "5", "-", "2", "0", "2", "6">>
Stamp == <<"2", "0", "2", "5", "-", "0", "1", "-", "0", "2", "T",
           "0", "3", ":", "0", "4", ":", "0", "5", "Z">>

DateOf(y, m, d) == Pad(y, 4) \o <<"-">> \o Pad(m, 2) \o <<"-">> \o Pad(d, 2)
TimeOf(h, mi) == Pad(h, 2) \o <<":">> \o Pad(mi, 2)
DateSat == DateOf(2025, 3, 8)
DateTue == DateOf(2025, 3, 4)
DateBad == DateOf(2025, 2, 30)

VenueOf(club) ==
  IF club = Hallam
  THEN [name |-> <<"S", "a", "n", "d", "y">>, address |-> <<"S", "1", "0">>]
  ELSE IF club = OppComma
  THEN [name |-> <<"A", ";", "B">>, address |-> <<"1", BS, "2">>]
  ELSE [name |-> club \o <<" ", "P", "k">>, address |-> <<"L", "S", "1">>]
InlineGround == [name |-> <<"O", "l", "d">>, address |-> <<"R", "d">>]
NoGround == [name |-> <<>>, address |-> <<>>]

GroundsOver(D) == [c \in D |-> VenueOf(c)]

Fixture(opp, comp, home, date, keys, kick) ==
  [opponent |-> opp, competition |-> comp, is_home |-> home, date |-> date,
   keys |-> keys,
   kick_off |-> IF "kick_off" \in keys THEN kick ELSE <<>>,
   away_ground |-> IF "away_ground" \in keys THEN InlineGround ELSE NoGround,
   last_updated |-> IF "last_updated" \in keys THEN Stamp ELSE <<>>,
   version |-> IF "version" \in keys THEN 3 ELSE 0]

GenStart ==
  /\ now = 0
  /\ pc = "start"
  /\ idx = 0
  /\ lines = <<>>
  /\ result = NoResult
  /\ first = NoResult

EscIdle ==
  /\ text = <<>>
  /\ escaped = <<>>
  /\ restored = <<>>
  /\ epc = "idle"

\* Venues and failures: two opponents, home and away, a valid and an invalid
\* date, with and without an inline away_ground, over every grounds lookup
FixturesMain ==
  {Fixture(o, CompCup, h, d, {"last_updated"} \cup ag, <<>>) :
     o \in {OppTown, OppComma}, h \in BOOLEAN, d \in {DateSat, DateBad},
     ag \in {{}, {"away_ground"}}}

Init ==
  /\ data \in SeqsUpTo({f \in FixturesMain : f.is_home => "away_ground" \notin f.keys},
                       MaxFixtures)
  /\ grounds_data \in {GroundsOver(D) : D \in SUBSET {Hallam, OppTown, OppComma}}
  /\ season = Season2425
  /\ GenStart
  /\ EscIdle

Next == Begin \/ ProcessFixture \/ Finish

Spec == Init /\ [][Next]_vars

\* Identifiers and order: names that differ only in case and punctuation,
\* two competitions, home and away, two dates, explicit and default kick-off
UidFixture(opp, comp, home, date, keys) ==
  Fixture(opp, comp, home, date, {"last_updated"} \cup keys, TimeOf(23, 30))
FixturesUid ==
  {UidFixture(OppTown, CompCup, TRUE, DateSat, {}),
   UidFixture(OppTown, CompCup, TRUE, DateTue, {}),
   UidFixture(OppTown, CompCup, TRUE, DateTue, {"kick_off", "version"}),
   UidFixture(OppDash, CompCup, TRUE, DateSat, {}),
   UidFixture(OppTown, CompCup, FALSE, DateSat, {}),
   UidFixture(OppTown, CompCup, FALSE, DateTue, {"kick_off", "version"}),
   UidFixture(OppDash, CompCup, FALSE, DateTue, {}),
   UidFixture(OppTown, CompLeague, TRUE, DateSat, {}),
   UidFixture(OppTown, CompLeague, FALSE, DateTue, {})}

InitUid ==
  /\ data \in SeqsUpTo(FixturesUid, MaxFixtures)
  /\ grounds_data = GroundsOver({Hallam, OppTown, OppDash})
  /\ season \in {Season2425, Season2526}
  /\ GenStart
  /\ EscIdle

SpecUid == InitUid /\ [][Next]_vars

\* Dates and times: every day number 1..31 of every month of the years, and
\* kick-off absent, empty, or one of a few times of day
TimeYears == (2024..(2023 + YearSpan)) \cup {2000, 2100}
KickOffs == {<<>>, TimeOf(12, 30), TimeOf(21, 59), TimeOf(22, 0), TimeOf(23, 30),
             TimeOf(24, 0)}

InitTime ==
  /\ \E y \in TimeYears, m \in 1..12, d \in 1..31 :
       \/ data = <<Fixture(OppTown, CompCup, TRUE, DateOf(y, m, d), {"last_updated"}, <<>>)>>
       \/ \E k \in KickOffs :
            data = <<Fixture(OppTown, CompCup, FALSE, DateOf(y, m, d),
                             {"last_updated", "kick_off"}, k)>>
  /\ grounds_data = GroundsOver({Hallam, OppTown})
  /\ season = Season2425
  /\ GenStart
  /\ EscIdle

SpecTime == InitTime /\ [][Next]_vars

\* Two invocations on the same inputs while the clock runs
FixturesRerun ==
  {Fixture(OppTown, CompCup, h, d, lu, <<>>) :
     h \in BOOLEAN, d \in {DateSat, DateBad}, lu \in {{}, {"last_updated"}}}

InitRerun ==
  /\ data \in SeqsUpTo(FixturesRerun, MaxFixtures)
  /\ grounds_data \in {GroundsOver(D) : D \in {{Hallam, OppTown}, {Hallam}, {OppTown}}}
  /\ season = Season2425
  /\ GenStart
  /\ EscIdle

NextRerun == Begin \/ ProcessFixture \/ Finish \/ Rerun \/ Tick

SpecRerun == InitRerun /\ [][NextRerun]_vars

-----------------------------------------------------------------------------
(* The escape run: escape_ics_text applied to a text, then mapped back *)

MaxTextLen == 4

EscAlphabet == {BS, SEMI, COMMA, LF, "n", "a"}

GenIdle ==
  /\ data = <<>>
  /\ grounds_data = <<>>
  /\ season = <<>>
  /\ now = 0
  /\ pc = "idle"
  /\ idx = 0
  /\ lines = <<>>
  /\ result = [kind |-> "none", text |-> <<>>]
  /\ first = [kind |-> "none", text |-> <<>>]

InitEscape ==
  /\ GenIdle
  /\ text \in SeqsUpTo(EscAlphabet, MaxTextLen)
  /\ escaped = <<>>
  /\ restored = <<>>
  /\ epc = "escape"

Escape ==
  /\ epc = "escape"
  /\ escaped' = escape_ics_text(text)
  /\ epc' = "unescape"
  /\ UNCHANGED <<text, restored>>
  /\ UNCHANGED genVars

Unescape ==
  /\ epc = "unescape"
  /\ restored' = unescape_ics_text(escaped)
  /\ epc' = "done"
  /\ UNCHANGED <<text, escaped>>
  /\ UNCHANGED genVars

NextEscape == Escape \/ Unescape

SpecEscape == InitEscape /\ [][NextEscape]_vars

HasBackslashN(t) == \E k \in 1..(Len(t) - 1) : t[k] = BS /\ t[k + 1] = "n"

\* C3 (as stated): escaping then reverse-mapping by the inverse substitutions
\* in reverse order reproduces every text
C3_RoundTripAll == epc = "done" => restored = text

\* C3 (amended): escaping then reverse-mapping reproduces every text in which
\* no backslash is directly followed by the letter n
C3_RoundTrip == (epc = "done" /\ ~HasBackslashN(text)) => restored = text

C3_Witness ==
  /\ epc = "done"
  /\ ~HasBackslashN(text)
  /\ \A c \in {BS, SEMI, COMMA, LF} : \E k \in 1..Len(text) : text[k] = c
  /\ restored = text

-----------------------------------------------------------------------------
(* Reading the outcome *)

\* str.split("\n")
RECURSIVE Split(_)
Split(doc) ==
  IF \A k \in 1..Len(doc) : doc[k] # LF THEN <<doc>>
  ELSE LET k == CHOOSE p \in 1..Len(doc) :
                  doc[p] = LF /\ \A q \in 1..(p - 1) : doc[q] # LF
       IN <<SubSeq(doc, 1, k - 1)>> \o Split(SubSeq(doc, k + 1, Len(doc)))

DocLines == Split(result.text)
HeaderLen == Len(header_lines(season))
BlockLen == 13
\* the j-th line of the k-th event block of a list of lines (an event is the
\* thirteen entries of event_lines)
BlockLine(ls, k, j) == ls[HeaderLen + BlockLen * (k - 1) + j]
\* what follows the property name on a line
Value(line) == Tail(line)
Emitted(k) == Len(lines) >= HeaderLen + BlockLen * k
DateOk(f) == strptime_date(f.date).ok
AwayUnknown(f) == ~f.is_home /\ f.opponent \notin DOMAIN grounds_data
Contains(s, sub) == \E k \in 0..(Len(s) - Len(sub)) : SubSeq(s, k + 1, k + Len(sub)) = sub
DateNum(f) == [y |-> NumVal(SubSeq(f.date, 1, 4)), m |-> NumVal(SubSeq(f.date, 6, 7)),
               d |-> NumVal(SubSeq(f.date, 9, 10))]

-----------------------------------------------------------------------------
(* Venues and failures (Spec) *)

\* C1: for an away fixture the lookup entry is used when it exists; when it is
\* absent and the fixture carries an inline away_ground, generation does not
\* fail and LOCATION is "<away_ground.name>, <away_ground.address>"; it fails
\* only when both are absent
C1_AwayGroundFallback ==
  \A k \in 1..idx :
    LET f == data[k]
    IN (~f.is_home /\ DateOk(f)) =>
         IF f.opponent \in DOMAIN grounds_data
         THEN Emitted(k)
              /\ Value(BlockLine(lines, k, 8)) = venue_text(grounds_data[f.opponent])
         ELSE IF "away_ground" \in f.keys
         THEN Emitted(k)
              /\ Value(BlockLine(lines, k, 8)) = venue_text(f.away_ground)
         ELSE pc = "failed" /\ idx = k

\* C2: the values written after SUMMARY:, DESCRIPTION: and LOCATION: of every
\* emitted event are escape_ics_text of the unescaped field text
C2_AllTextEscaped ==
  \A k \in 1..idx :
    Emitted(k) =>
      LET f == data[k]
      IN /\ Value(BlockLine(lines, k, 6)) = escape_ics_text(summary_text(f))
         /\ Value(BlockLine(lines, k, 7)) = escape_ics_text(description_text(f))
         /\ Value(BlockLine(lines, k, 8))
              = escape_ics_text(location_text(f, grounds_data).val)

\* the first fixture, if any, at which the loop raises
Fails(f) == ~DateOk(f) \/ AwayUnknown(f)
NoDocument == result.kind = "error" /\ pc = "failed"

\* C4 (as stated): if fixture i is an away fixture whose opponent has no lookup
\* entry and which has no inline away_ground, and no earlier fixture failed,
\* generation fails with a message naming that opponent and returns no document
C4_MissingOpponentNamed ==
  pc \in {"done", "failed"} =>
    \A i \in 1..Len(data) :
      (AwayUnknown(data[i]) /\ "away_ground" \notin data[i].keys
       /\ \A j \in 1..(i - 1) : ~Fails(data[j]))
      => NoDocument /\ Contains(result.text, data[i].opponent)

\* C4 (amended): the same, provided also that the lookup holds the home club
\* and that fixture i's own date parses
C4_MissingOpponentAborts ==
  pc \in {"done", "failed"} =>
    \A i \in 1..Len(data) :
      (AwayUnknown(data[i]) /\ "away_ground" \notin data[i].keys
       /\ Hallam \in DOMAIN grounds_data /\ DateOk(data[i])
       /\ \A j \in 1..(i - 1) : ~Fails(data[j]))
      => /\ NoDocument
         /\ result.text = opponent_missing(data[i].opponent)
         /\ Contains(result.text, data[i].opponent)
         /\ idx = i
         /\ Len(lines) = HeaderLen + BlockLen * (i - 1)

C4_Witness ==
  /\ pc = "failed"
  /\ Len(data) = 2
  /\ idx = 2
  /\ Emitted(1)
  /\ AwayUnknown(data[2])
  /\ "away_ground" \notin data[2].keys
  /\ result.text = opponent_missing(data[2].opponent)

\* C9: with no entry for the home club, generation fails before any event is
\* emitted, whatever the fixture list: no fixture is processed, no document
C9_HomeClubMissingFailsFirst ==
  (Hallam \notin DOMAIN grounds_data /\ pc # "start") =>
    /\ pc = "failed"
    /\ result = Raised(hallam_missing)
    /\ idx = 0
    /\ Len(lines) = HeaderLen

C9_Witness ==
  /\ Hallam \notin DOMAIN grounds_data
  /\ pc = "failed"
  /\ Len(data) = 2
  /\ ~DateOk(data[1])
  /\ ~data[2].is_home /\ data[2].opponent \in DOMAIN grounds_data
  /\ result = Raised(hallam_missing)

-----------------------------------------------------------------------------
(* Kick-off and instants (SpecTime) *)

\* Zeller's congruence: 0 = Saturday, 1 = Sunday, 2 = Monday, ...
Zeller(y, m, d) ==
  LET mm == IF m < 3 THEN m + 12 ELSE m
      yy == IF m < 3 THEN y - 1 ELSE y
      K == yy % 100
      J == yy \div 100
  IN (d + ((13 * (mm + 1)) \div 5) + K + (K \div 4) + (J \div 4) + 5 * J) % 7

KickOffSupplied(f) == "kick_off" \in f.keys /\ f.kick_off # <<>>
ExpectedKickOff(f) ==
  IF KickOffSupplied(f) THEN f.kick_off
  ELSE IF Zeller(DateNum(f).y, DateNum(f).m, DateNum(f).d) \in {0, 1}
       THEN <<"1", "5", ":", "0", "0">>
       ELSE <<"1", "9", ":", "4", "5">>

\* C6: the resolved kick-off is the fixture's kick_off verbatim when one is
\* supplied, and otherwise 15:00 on a Saturday or Sunday and 19:45 from Monday
\* to Friday, decided by the date's day of the week alone
C6_KickOffResolution ==
  LET dl == DocLines
  IN
  \A k \in 1..idx :
    DateOk(data[k]) =>
      /\ get_kick_off_time(data[k]) = Ok(ExpectedKickOff(data[k]))
      /\ pc = "done" =>
           SubSeq(Value(BlockLine(dl, k, 4)), 10, 13)
             = SelectSeq(ExpectedKickOff(data[k]), IsDigit)

C6_Witness ==
  /\ pc = "done"
  /\ data[1].date = DateSat
  /\ ~KickOffSupplied(data[1])
  /\ BlockLine(DocLines, 1, 4)
       = <<"DTSTART:", "2", "0", "2", "5", "0", "3", "0", "8", "T",
           "1", "5", "0", "0", "0", "0", "Z">>

\* the day after, by the calendar's rules
NextDayRef(y, m, d) ==
  LET leap == (y % 4 = 0 /\ y % 100 # 0) \/ y % 400 = 0
      last == IF m = 2 THEN (IF leap THEN 29 ELSE 28)
              ELSE IF m \in {4, 6, 9, 11} THEN 30 ELSE 31
  IN IF d < last THEN [y |-> y, m |-> m, d |-> d + 1]
     ELSE IF m < 12 THEN [y |-> y, m |-> m + 1, d |-> 1]
     ELSE [y |-> y + 1, m |-> 1, d |-> 1]

\* C7: DTSTART is the fixture's date and kick-off with seconds 00, and DTEND
\* is the instant two hours later, on the next calendar day when the kick-off
\* is 22:00 or later
C7_EndTwoHoursLater ==
  LET dl == DocLines
  IN
  pc = "done" =>
    \A k \in 1..Len(data) :
      LET f == data[k]
          dn == DateNum(f)
          ko == ExpectedKickOff(f)
          h == NumVal(SubSeq(ko, 1, 2))
          mi == SubSeq(ko, 4, 5)
          nd == NextDayRef(dn.y, dn.m, dn.d)
      IN /\ BlockLine(dl, k, 4)
              = <<"DTSTART:">> \o SelectSeq(f.date, IsDigit) \o <<"T">>
                \o SubSeq(ko, 1, 2) \o mi \o <<"0", "0", "Z">>
         /\ BlockLine(dl, k, 5)
              = IF h < 22
                THEN <<"DTEND:">> \o SelectSeq(f.date, IsDigit) \o <<"T">>
                     \o Pad(h + 2, 2) \o mi \o <<"0", "0", "Z">>
                ELSE <<"DTEND:">> \o Pad(nd.y, 4) \o Pad(nd.m, 2) \o Pad(nd.d, 2)
                     \o <<"T">> \o Pad(h - 22, 2) \o mi \o <<"0", "0", "Z">>

C7_Witness ==
  /\ pc = "done"
  /\ data[1].date = DateOf(2024, 12, 31)
  /\ data[1].kick_off = TimeOf(23, 30)
  /\ BlockLine(DocLines, 1, 5)
       = <<"DTEND:", "2", "0", "2", "5", "0", "1", "0", "1", "T",
           "0", "1", "3", "0", "0", "0", "Z">>

-----------------------------------------------------------------------------
(* Identifiers and order (SpecUid) *)

IsLowerOrDigit(c) == c \in Range(Lowers) \cup Range(DigitChars)
\* the normal form, the other way round: strip first, lower-case after
NormRef(s) == Lower(SelectSeq(s, IsAlnum))

-----------------------------------------------------------------------------
(* Two invocations (SpecRerun) *)

BothRan == pc \in {"done", "failed"} /\ first.kind # "none"

\* C5 (as stated): two invocations on the same inputs yield the same outcome,
\* whenever each runs, also for fixtures with no last_updated
C5_SameOutcome == BothRan => result = first

\* C5 (amended): two invocations on the same inputs yield the same outcome
\* provided every fixture carries last_updated
C5_SameOutcomeWhenStamped ==
  (BothRan /\ \A k \in 1..Len(data) : "last_updated" \in data[k].keys)
    => result = first

C5_Witness ==
  /\ BothRan
  /\ Len(data) = 2
  /\ \A k \in 1..Len(data) : "last_updated" \in data[k].keys
  /\ now > 0
  /\ result.kind = "document"
  /\ result = first

=============================================================================
